---- MODULE Spec2Model ----
(***************************************************************************)
(* Project Classifier (main3.0.py): a spreadsheet of (name, size) records  *)
(* is reconciled with the folders of a base directory.  FileClassifier     *)
(* moves each matched folder into a size bucket directory; ReportGenerator *)
(* lists, for every folder, the best matching record and its bucket.       *)
(*                                                                         *)
(* A string is a sequence of one-character strings.  A float is a record   *)
(* [k, v] with k in {"num", "inf", "nan"}.  A path is a sequence of names  *)
(* relative to the base directory.                                         *)
(***************************************************************************)
EXTENDS Integers, Sequences, FiniteSets, Bags, TLC

VARIABLES
    entries,     \* RangeConfigurator.entries: the (min, max, dir) text fields
    pathState,   \* what excel_path names: "empty" | "nofile" | "nodir" | "ok"
    sheet,       \* the spreadsheet: [readable, ncols, rows]
    dirs,        \* directories under base_dir (set of paths)
    files,       \* regular files under base_dir (set of paths)
    pc,          \* "idle" | "running" (inside FileClassifier.run's loop)
    idx,         \* the row FileClassifier.run processes next
    ranges,      \* FileClassifier.ranges of the run in progress
    handler,     \* the handler that ran last: "none" | "classify" | "report"
    msg,         \* the message box the last handler showed
    exc,         \* the exception the last handler caught ("none" if none)
    last,        \* what the last processed row did
    moved,       \* the moves of the current classify run, in order
    report,      \* report_data of the last generate(), as a bag of rows
    reportAt,    \* the filesystem generate() saw (<<dirs, files>>), or <<>>
    reportPath,  \* where generate() wrote: "none" | "desktop" | "base"
    clicks,      \* handlers started so far
    validated,   \* the last get_ranges() result
    saved,       \* the ranges AppConfig.save() wrote last (<<>>: none)
    simA, simB,  \* NameMatcher inputs
    scoreC,      \* SequenceMatcher(None, simA, simB).ratio()  (classify order)
    scoreR       \* SequenceMatcher(None, simB, simA).ratio()  (report order)

vars == <<entries, pathState, sheet, dirs, files, pc, idx, ranges, handler,
          msg, exc, last, moved, report, reportAt, reportPath, clicks,
          validated, saved, simA, simB, scoreC, scoreR>>

(***************************************************************************)
(* Bounds.                                                                 *)
(***************************************************************************)
MaxLen == 4        \* longest string given to the NameMatcher specification
MaxRows == 2       \* most rows in a spreadsheet
MaxClicks == 2     \* most handler invocations in a behaviour
MaxEntries == 2    \* most range rows given to the RangeValidator specification

(***************************************************************************)
(* difflib.SequenceMatcher(None, a, b) for strings shorter than 200        *)
(* characters (no junk, no popular elements).  Indices are 1-based and     *)
(* ranges inclusive: Python's [alo, ahi) is alo+1 .. ahi here.             *)
(***************************************************************************)
RECURSIVE RunLen(_, _, _, _, _, _)
RunLen(a, b, i, j, ahi, bhi) ==
    IF i <= ahi /\ j <= bhi /\ a[i] = b[j]
    THEN 1 + RunLen(a, b, i + 1, j + 1, ahi, bhi)
    ELSE 0

\* m is at least as good a block as n: longer, or as long and earlier in a,
\* or as long, at the same place in a and not later in b.
BetterBlock(m, n) ==
    \/ m[3] > n[3]
    \/ m[3] = n[3] /\ m[1] < n[1]
    \/ m[3] = n[3] /\ m[1] = n[1] /\ m[2] <= n[2]

\* find_longest_match: <<i, j, k>> with a[i..i+k-1] = b[j..j+k-1], k maximal,
\* then i minimal, then j minimal; <<alo, blo, 0>> when nothing matches.
FindLongestMatch(a, b, alo, ahi, blo, bhi) ==
    LET blocks == {<<i, j, RunLen(a, b, i, j, ahi, bhi)>> :
                       i \in alo..ahi, j \in blo..bhi}
        hits == {m \in blocks : m[3] > 0}
    IN  IF hits = {} THEN <<alo, blo, 0>>
        ELSE CHOOSE m \in hits : \A n \in hits : BetterBlock(m, n)

\* get_matching_blocks, summed: the longest block, then the same to its left
\* and to its right.
RECURSIVE MatchCount(_, _, _, _, _, _)
MatchCount(a, b, alo, ahi, blo, bhi) ==
    LET m == FindLongestMatch(a, b, alo, ahi, blo, bhi)
        i == m[1]
        j == m[2]
        k == m[3]
    IN  IF k = 0 THEN 0
        ELSE k
             + (IF alo < i /\ blo < j
                THEN MatchCount(a, b, alo, i - 1, blo, j - 1) ELSE 0)
             + (IF i + k <= ahi /\ j + k <= bhi
                THEN MatchCount(a, b, i + k, ahi, j + k, bhi) ELSE 0)

\* A faulty variant: the matches are not doubled.
RatioUndoubled(a, b) ==
    LET length == Len(a) + Len(b)
    IN  IF length > 0
        THEN [num |-> MatchCount(a, b, 1, Len(a), 1, Len(b)), den |-> length]
        ELSE [num |-> 1, den |-> 1]

\* ratio(): 2.0 * matches / (len(a) + len(b)), and 1.0 for two empty strings.
\* The quotient is kept as the fraction [num, den].
Ratio(a, b) ==
    LET length == Len(a) + Len(b)
    IN  IF length > 0
        THEN [num |-> 2 * MatchCount(a, b, 1, Len(a), 1, Len(b)), den |-> length]
        ELSE [num |-> 1, den |-> 1]

\* Comparisons of fractions with positive denominators.
FracGt(x, y) == x.num * y.den > y.num * x.den
FracEq(x, y) == x.num * y.den = y.num * x.den
ZeroFrac == [num |-> 0, den |-> 1]

\* The names of the folders, labels and records of the model.
nAB == <<"a", "b">>
nABC == <<"a", "b", "c">>
nABCD == <<"a", "b", "c", "d">>
lblS == <<"S">>
lblB == <<"B">>
NameUniverse == {nAB, nABC, nABCD, lblS, lblB}

\* Ratio over the names of the model, computed once.
RatioTable == [a \in NameUniverse |-> [b \in NameUniverse |-> Ratio(a, b)]]

\* SequenceMatcher(None, a, b).ratio(), read from the table when it is there.
Similarity(a, b) ==
    IF a \in NameUniverse /\ b \in NameUniverse
    THEN RatioTable[a][b]
    ELSE Ratio(a, b)

\* A faulty variant of the threshold test: similarity >= 0.8.
AtLeastThreshold(r) == 5 * r.num >= 4 * r.den

\* similarity > 0.8
AboveThreshold(r) == 5 * r.num > 4 * r.den

(***************************************************************************)
(* Text and numbers.                                                       *)
(***************************************************************************)
DecimalChars == {"0", "1", "2", "3", "4", "5", "6", "7", "8", "9"}

\* U+00B2 SUPERSCRIPT TWO, as one character: str.isdigit() accepts it and
\* int() rejects it.
SuperscriptTwo == "SUP2"

DigitChars == DecimalChars \cup {SuperscriptTwo}

DigitVal(c) ==
    CASE c = "0" -> 0 [] c = "1" -> 1 [] c = "2" -> 2 [] c = "3" -> 3
      [] c = "4" -> 4 [] c = "5" -> 5 [] c = "6" -> 6 [] c = "7" -> 7
      [] c = "8" -> 8 [] c = "9" -> 9

\* str.isdigit(): non-empty and every character a digit.
IsDigit(s) == Len(s) > 0 /\ \A i \in 1..Len(s) : s[i] \in DigitChars

\* str.isdecimal(): non-empty and every character a decimal digit.
IsDecimal(s) == Len(s) > 0 /\ \A i \in 1..Len(s) : s[i] \in DecimalChars

RECURSIVE DecValue(_)
DecValue(s) ==
    IF s = <<>> THEN 0
    ELSE 10 * DecValue(SubSeq(s, 1, Len(s) - 1)) + DigitVal(s[Len(s)])

\* int(s) for a string that passed isdigit(): the value, or ValueError.
IntOf(s) ==
    IF \A i \in 1..Len(s) : s[i] \in DecimalChars
    THEN [ok |-> TRUE, v |-> DecValue(s)]
    ELSE [ok |-> FALSE, v |-> 0]

RECURSIVE DecString(_)
DecString(n) ==
    LET d == CHOOSE c \in DecimalChars : DigitVal(c) = n % 10
    IN  IF n < 10 THEN <<d>> ELSE Append(DecString(n \div 10), d)

\* Floats: finite non-negative integers, +inf and nan.
Num(n) == [k |-> "num", v |-> n]
Inf == [k |-> "inf", v |-> 0]
NaN == [k |-> "nan", v |-> 0]

\* x <= y and x < y on floats; every comparison with nan is false.
FloatLe(x, y) ==
    /\ x.k # "nan" /\ y.k # "nan"
    /\ \/ y.k = "inf"
       \/ x.k = "num" /\ y.k = "num" /\ x.v <= y.v

FloatLt(x, y) ==
    /\ x.k # "nan" /\ y.k # "nan"
    /\ x.k = "num"
    /\ \/ y.k = "inf"
       \/ y.k = "num" /\ x.v < y.v

InfText == <<"i", "n", "f">>
NanText == <<"n", "a", "n">>

(***************************************************************************)
(* RangeConfigurator.get_ranges.                                           *)
(***************************************************************************)
\* One pass of the loop body over the triple e, from the accumulated
\* [ranges, errors, raised].  raised: int() raised ValueError, which leaves
\* get_ranges without a return value.
ValidateEntry(acc, e) ==
    IF acc.raised THEN acc
    ELSE IF ~IsDigit(e.min)
    THEN [acc EXCEPT !.errors = Append(@, [kind |-> "min", text |-> e.min])]
    ELSE IF e.max # InfText /\ ~IsDigit(e.max)
    THEN [acc EXCEPT !.errors = Append(@, [kind |-> "max", text |-> e.max])]
    ELSE IF e.dir = <<>>
    THEN [acc EXCEPT !.errors = Append(@, [kind |-> "dir", text |-> <<>>])]
    ELSE IF ~IntOf(e.min).ok \/ (e.max # InfText /\ ~IntOf(e.max).ok)
    THEN [acc EXCEPT !.raised = TRUE]
    ELSE LET min_num == Num(IntOf(e.min).v)
             max_num == IF e.max = InfText THEN Inf ELSE Num(IntOf(e.max).v)
         IN  IF FloatLe(max_num, min_num)
             THEN [acc EXCEPT !.errors =
                       Append(@, [kind |-> "order", text |-> e.min \o e.max])]
             ELSE [acc EXCEPT !.ranges =
                       Append(@, [min |-> min_num, max |-> max_num,
                                  dir |-> e.dir])]

RECURSIVE ValidateFrom(_, _, _)
ValidateFrom(es, i, acc) ==
    IF i > Len(es) THEN acc
    ELSE ValidateFrom(es, i + 1, ValidateEntry(acc, es[i]))

\* get_ranges(): [ranges, errors, raised].
GetRanges(es) ==
    ValidateFrom(es, 1, [ranges |-> <<>>, errors |-> <<>>, raised |-> FALSE])

\* The range rows of the model.
Entry(lo, hi, d) == [min |-> lo, max |-> hi, dir |-> d]

\* [0, 5) S and [5, inf) B
StandardEntries == <<Entry(<<"0">>, <<"5">>, lblS), Entry(<<"5">>, InfText, lblB)>>
\* [4, 7) S and [5, 9) B: they overlap on [5, 7) and leave 3 out
OverlapEntries == <<Entry(<<"4">>, <<"7">>, lblS), Entry(<<"5">>, <<"9">>, lblB)>>
\* one triple with min >= max
InvalidEntries == <<Entry(<<"7">>, <<"5">>, lblS), Entry(<<"5">>, InfText, lblB)>>
\* one triple whose minimum is a superscript two
SuperscriptEntries == <<Entry(<<SuperscriptTwo>>, <<"5">>, lblS)>>

EntryConfigs == {StandardEntries, OverlapEntries, InvalidEntries, SuperscriptEntries}

\* get_ranges() over the range rows of the model, computed once.
RangesTable == [es \in EntryConfigs |-> GetRanges(es)]

\* RangeConfigFrame.get_validated_ranges(), read from the table when it is
\* there.
ValidatedRanges(es) ==
    IF es \in EntryConfigs THEN RangesTable[es] ELSE GetRanges(es)

(***************************************************************************)
(* Bucketizer: FileClassifier._get_target_dir, ReportGenerator._get_target_dir *)
(***************************************************************************)
\* A faulty variant: the interval closed at its maximum.
InRangeClosed(r, size) == FloatLe(r.min, size) /\ FloatLe(size, r.max)

\* min_size <= size < max_size
InRange(r, size) == FloatLe(r.min, size) /\ FloatLt(size, r.max)

\* The loop over the ranges from index i: the index it returns at, or 0.
RECURSIVE TargetFrom(_, _, _)
TargetFrom(rs, size, i) ==
    IF i > Len(rs) THEN 0
    ELSE IF InRange(rs[i], size) THEN i
    ELSE TargetFrom(rs, size, i + 1)

\* A faulty variant: a size in no range goes to the last range.
ClassifierTargetDirOrLast(rs, size) ==
    LET i == TargetFrom(rs, size, 1)
    IN  IF rs = <<>> THEN [found |-> FALSE, path |-> <<>>]
        ELSE IF i = 0 THEN [found |-> TRUE, path |-> <<rs[Len(rs)].dir>>]
        ELSE [found |-> TRUE, path |-> <<rs[i].dir>>]

\* FileClassifier._get_target_dir: the path base_dir/dir_name, or None.
ClassifierTargetDir(rs, size) ==
    LET i == TargetFrom(rs, size, 1)
    IN  IF i = 0 THEN [found |-> FALSE, path |-> <<>>]
        ELSE [found |-> TRUE, path |-> <<rs[i].dir>>]

Unclassified == <<"unclassified">>

\* ReportGenerator._get_target_dir: dir_name, or the sentinel.
ReportTargetDir(rs, size) ==
    LET i == TargetFrom(rs, size, 1)
    IN  IF i = 0 THEN Unclassified ELSE rs[i].dir

(***************************************************************************)
(* The spreadsheet as pandas.read_excel(header=None) gives it.  A cell is  *)
(* text, a number or empty (NaN); a sheet with one column has no column 1. *)
(***************************************************************************)
TextCell(s) == [t |-> "text", s |-> s, v |-> 0]
NumCell(n) == [t |-> "num", s |-> <<>>, v |-> n]
EmptyCell == [t |-> "empty", s |-> <<>>, v |-> 0]

\* str(row[0]): the text itself, an integer's digits, "nan" for an empty cell.
StrOf(cell) ==
    CASE cell.t = "text" -> cell.s
      [] cell.t = "num" -> DecString(cell.v)
      [] cell.t = "empty" -> NanText

\* float(row[1]): [ok, val]; not ok is ValueError.  Text is parsed as far as
\* decimal digits, "inf" and "nan" go; any other text is a ValueError.
FloatOf(cell) ==
    CASE cell.t = "num" -> [ok |-> TRUE, val |-> Num(cell.v)]
      [] cell.t = "empty" -> [ok |-> TRUE, val |-> NaN]
      [] cell.t = "text" ->
           IF IsDecimal(cell.s) THEN [ok |-> TRUE, val |-> Num(DecValue(cell.s))]
           ELSE IF cell.s = InfText THEN [ok |-> TRUE, val |-> Inf]
           ELSE IF cell.s = NanText THEN [ok |-> TRUE, val |-> NaN]
           ELSE [ok |-> FALSE, val |-> NaN]

(***************************************************************************)
(* The filesystem under base_dir.                                          *)
(***************************************************************************)
IsPrefix(p, q) == Len(p) <= Len(q) /\ SubSeq(q, 1, Len(p)) = p

\* The orders os.listdir may return the names S in.
RECURSIVE Orders(_)
Orders(S) ==
    IF S = {} THEN {<<>>}
    ELSE UNION {{<<x>> \o rest : rest \in Orders(S \ {x})} : x \in S}

\* os.makedirs(target, exist_ok=True) for target = base_dir/<name>.
MakeDirs(ds, fs, target) ==
    IF target \in ds THEN [ok |-> TRUE, dirs |-> ds]
    ELSE IF target \in fs THEN [ok |-> FALSE, dirs |-> ds]
    ELSE [ok |-> TRUE, dirs |-> ds \cup {target}]

\* p, a path at or below src, after src became dst/<basename of src>.
Rebased(p, src, dst) ==
    IF IsPrefix(src, p)
    THEN dst \o SubSeq(p, Len(src), Len(p))
    ELSE p

\* shutil.copytree(src, dst/<basename of src>): the source stays.
CopyTree(ds, fs, src, dst) ==
    [dirs |-> ds \cup {Rebased(p, src, dst) : p \in ds},
     files |-> fs \cup {Rebased(p, src, dst) : p \in fs}]

\* A faulty variant of the move: os.rename(src, dst), which puts the source in the
\* place of dst instead of inside it.
RenameOnto(ds, fs, src, dst) ==
    [dirs |-> {IF IsPrefix(src, p) THEN dst \o SubSeq(p, Len(src) + 1, Len(p))
               ELSE p : p \in ds},
     files |-> {IF IsPrefix(src, p) THEN dst \o SubSeq(p, Len(src) + 1, Len(p))
                ELSE p : p \in fs}]

\* os.rename(src, dst/<basename of src>) of a directory and all below it.
RenameInto(ds, fs, src, dst) ==
    [dirs |-> {Rebased(p, src, dst) : p \in ds},
     files |-> {Rebased(p, src, dst) : p \in fs}]

\* rmtree(src) when it raises at src itself, after emptying it.
Emptied(ds, fs, src) ==
    [dirs |-> {p \in ds : p = src \/ ~IsPrefix(src, p)},
     files |-> {p \in fs : ~IsPrefix(src, p)}]

\* What the operating system does with the calls of shutil.move: "ok" (the
\* rename works, or it fails and copytree and rmtree both work), "failed"
\* (the rename fails and the copy creates nothing before it raises),
\* "copied" (the rename fails, the copy is made and rmtree raises at once)
\* or "emptied" (as "copied", but rmtree raises only at the source
\* directory itself, what was below it being removed).
RenameResults == {"ok", "failed", "copied", "emptied"}

\* shutil.move(src, dst) for an existing directory dst: [res, dirs, files],
\* res "same" (src is dst: os.rename(src, src) changes nothing), "exists"
\* (shutil.Error: dst/<basename> exists), "oserror" (the rename fails and
\* so does the fallback; the source directory is still there, with or
\* without a copy of it in dst) or "moved".
Move(ds, fs, src, dst, rename) ==
    LET real_dst == Append(dst, src[Len(src)])
    IN  IF src = dst THEN [res |-> "same", dirs |-> ds, files |-> fs]
        ELSE IF real_dst \in ds \cup fs
        THEN [res |-> "exists", dirs |-> ds, files |-> fs]
        ELSE IF rename = "failed"
        THEN [res |-> "oserror", dirs |-> ds, files |-> fs]
        ELSE IF rename = "copied"
        THEN [res |-> "oserror"] @@ CopyTree(ds, fs, src, dst)
        ELSE IF rename = "emptied"
        THEN LET copy == CopyTree(ds, fs, src, dst)
             IN  [res |-> "oserror"] @@ Emptied(copy.dirs, copy.files, src)
        ELSE [res |-> "moved"] @@ RenameInto(ds, fs, src, dst)

(***************************************************************************)
(* FileClassifier.                                                         *)
(***************************************************************************)
\* A faulty variant: best-of, the directory of the listing with the highest
\* similarity over the threshold.
FindBestOf(project_name, lst, ds, i) ==
    LET over == {j \in i..Len(lst) :
                    /\ <<lst[j]>> \in ds
                    /\ AboveThreshold(Similarity(project_name, lst[j]))}
        top == CHOOSE j \in over : \A k \in over :
                   \/ FracGt(Similarity(project_name, lst[j]),
                             Similarity(project_name, lst[k]))
                   \/ j <= k /\ ~FracGt(Similarity(project_name, lst[k]),
                                         Similarity(project_name, lst[j]))
    IN  IF over = {} THEN [found |-> FALSE, name |-> <<>>, at |-> Len(lst) + 1]
        ELSE [found |-> TRUE, name |-> lst[top], at |-> top]

\* The loop of _find_project_folder over the listing lst from index i: the
\* first directory whose similarity to project_name is over the threshold,
\* as [found, name, at]; at is the index the loop returned at, Len(lst) + 1
\* when it ran to the end.
RECURSIVE FindFrom(_, _, _, _)
FindFrom(project_name, lst, ds, i) ==
    IF i > Len(lst) THEN [found |-> FALSE, name |-> <<>>, at |-> i]
    ELSE IF <<lst[i]>> \in ds /\ AboveThreshold(Similarity(project_name, lst[i]))
    THEN [found |-> TRUE, name |-> lst[i], at |-> i]
    ELSE FindFrom(project_name, lst, ds, i + 1)

FindProjectFolder(project_name, lst, ds) == FindFrom(project_name, lst, ds, 1)

\* The directories directly under base_dir: os.listdir(base_dir) without
\* the entries the os.path.isdir test drops.
TopDirs(ds) == {p[1] : p \in {q \in ds : Len(q) = 1}}

\* What the body of run's loop does to the filesystem for a row whose size
\* parsed, given the order lst of the listing and what the rename does:
\* [outcome, folder, target, dirs, files, passed]; passed holds the entries
\* of the listing the loop of _find_project_folder went past without
\* returning.
MoveRow(project_name, project_size, rs, lst, rename, ds, fs) ==
    LET folder == FindProjectFolder(project_name, lst, ds)
        target == ClassifierTargetDir(rs, project_size)
        made == MakeDirs(ds, fs, target.path)
        mv == Move(made.dirs, fs, <<folder.name>>, target.path, rename)
        same == [dirs |-> ds, files |-> fs,
                 passed |-> {lst[j] : j \in 1..(folder.at - 1)}]
    IN  IF ~folder.found
        THEN [outcome |-> "no_folder", folder |-> <<>>, target |-> <<>>] @@ same
        ELSE IF ~target.found
        THEN [outcome |-> "no_target", folder |-> folder.name, target |-> <<>>]
             @@ same
        ELSE IF ~made.ok
        THEN [outcome |-> "mkdir_failed", folder |-> folder.name,
              target |-> target.path[1]] @@ same
        ELSE [outcome |-> mv.res, folder |-> folder.name,
              target |-> target.path[1], dirs |-> mv.dirs, files |-> mv.files,
              passed |-> same.passed]

\* A faulty variant: every exception is swallowed and the loop goes on.
RaisedNever(outcome) == "none"

\* The exception an outcome raises out of run ("none": the loop goes on).
Raised(outcome) ==
    CASE outcome = "keyerror" -> "KeyError"
      [] outcome = "mkdir_failed" -> "FileExistsError"
      [] outcome = "exists" -> "shutil.Error"
      [] outcome = "oserror" -> "OSError"
      [] OTHER -> "none"

\* A faulty variant: the range errors are shown and the run goes on.
PreflightIgnoringErrors(ps, v, sh) ==
    IF ps = "empty" THEN "select_file"
    ELSE IF v.raised THEN "uncaught"
    ELSE IF ps = "nofile" THEN "FileNotFoundError"
    ELSE IF ps = "nodir" THEN "NotADirectoryError"
    ELSE IF ~sh.readable THEN "ValueError"
    ELSE "run"

\* classify_files up to the call of run: what stops it, or "run".
Preflight(ps, v, sh) ==
    IF ps = "empty" THEN "select_file"
    ELSE IF v.raised THEN "uncaught"
    ELSE IF v.errors # <<>> THEN "input_error"
    ELSE IF ps = "nofile" THEN "FileNotFoundError"
    ELSE IF ps = "nodir" THEN "NotADirectoryError"
    ELSE IF ~sh.readable THEN "ValueError"
    ELSE "run"

NoRow ==
    [row |-> 0, outcome |-> "none", folder |-> <<>>, target |-> <<>>,
     passed |-> {}]

\* FileClassifierApp.classify_files, up to the first row of run's loop.
ClassifyFiles ==
    /\ pc = "idle"
    /\ clicks < MaxClicks
    /\ clicks' = clicks + 1
    /\ handler' = "classify"
    /\ LET v == ValidatedRanges(entries)
           pre == Preflight(pathState, v, sheet)
       IN  /\ validated' = IF pathState = "empty" THEN validated ELSE v
           /\ IF pre = "run"
              THEN /\ pc' = "running"
                   /\ idx' = 1
                   /\ ranges' = v.ranges
                   /\ msg' = "none"
                   /\ exc' = "none"
              ELSE /\ pc' = "idle"
                   /\ UNCHANGED <<idx, ranges>>
                   /\ msg' = IF pre \in {"select_file", "uncaught", "input_error"}
                             THEN pre ELSE "run_error"
                   /\ exc' = IF pre \in {"select_file", "input_error"} THEN "none"
                             ELSE IF pre = "uncaught" THEN "ValueError"
                             ELSE pre
    /\ moved' = <<>>
    /\ last' = NoRow
    /\ UNCHANGED <<entries, pathState, sheet, dirs, files, report, reportAt,
                   reportPath, saved, simA, simB, scoreC, scoreR>>

\* One pass of the loop of FileClassifier.run, for row idx.  An exception
\* leaves run and is shown by classify_files.
ClassifyRecord ==
    /\ pc = "running"
    /\ idx <= Len(sheet.rows)
    /\ LET row == sheet.rows[idx]
           project_name == StrOf(row.name)
           size == FloatOf(row.size)
       IN  \E res \in
               IF sheet.ncols < 2
               THEN {[outcome |-> "keyerror", folder |-> <<>>, target |-> <<>>,
                      dirs |-> dirs, files |-> files, passed |-> {}]}
               ELSE IF ~size.ok
               THEN {[outcome |-> "skipped", folder |-> <<>>, target |-> <<>>,
                      dirs |-> dirs, files |-> files, passed |-> {}]}
               ELSE {MoveRow(project_name, size.val, ranges, lst, rename,
                             dirs, files) :
                         lst \in Orders(TopDirs(dirs)), rename \in RenameResults} :
             /\ dirs' = res.dirs
             /\ files' = res.files
             /\ last' = [row |-> idx, outcome |-> res.outcome,
                         folder |-> res.folder, target |-> res.target,
                         passed |-> res.passed]
             /\ moved' = IF res.outcome = "moved"
                         THEN Append(moved, [row |-> idx, folder |-> res.folder,
                                             target |-> res.target])
                         ELSE moved
             /\ exc' = Raised(res.outcome)
             /\ IF Raised(res.outcome) = "none"
                THEN /\ idx' = idx + 1
                     /\ UNCHANGED <<pc, msg>>
                ELSE /\ pc' = "idle"
                     /\ msg' = "run_error"
                     /\ UNCHANGED idx
    /\ UNCHANGED <<entries, pathState, sheet, ranges, handler, report, reportAt,
                   reportPath, clicks, validated, saved, simA, simB, scoreC,
                   scoreR>>

\* The loop of run is over: config.save and the success message.
ClassifyDone ==
    /\ pc = "running"
    /\ idx > Len(sheet.rows)
    /\ pc' = "idle"
    /\ saved' = ranges
    /\ msg' = "success"
    /\ UNCHANGED <<entries, pathState, sheet, dirs, files, idx, ranges, handler,
                   exc, last, moved, report, reportAt, reportPath, clicks,
                   validated, simA, simB, scoreC, scoreR>>

(***************************************************************************)
(* ReportGenerator.                                                        *)
(***************************************************************************)
\* _read_excel_data: one project per row, a row that raises is skipped.
\* size is [some, val]; some = FALSE is None.  row is the row's number.
RECURSIVE ReadFrom(_, _)
ReadFrom(sh, i) ==
    IF i > Len(sh.rows) THEN <<>>
    ELSE LET row == sh.rows[i]
             size == IF sh.ncols > 1 THEN FloatOf(row.size)
                     ELSE [ok |-> TRUE, val |-> NaN]
         IN  IF ~size.ok THEN ReadFrom(sh, i + 1)
             ELSE <<[name |-> StrOf(row.name),
                     size |-> [some |-> sh.ncols > 1, val |-> size.val],
                     row |-> i]>> \o ReadFrom(sh, i + 1)

ReadExcelData(sh) == ReadFrom(sh, 1)

\* project["size"] is not None
HasSize(project) == project.size.some

\* The loop of _find_best_match from project i on, with best_match (0: None,
\* else an index into projects) and max_similarity so far.
RECURSIVE BestFrom(_, _, _, _, _)
BestFrom(folder_name, projects, i, best, max_similarity) ==
    IF i > Len(projects)
    THEN [found |-> best # 0, index |-> best, similarity |-> max_similarity]
    ELSE IF ~HasSize(projects[i])
    THEN BestFrom(folder_name, projects, i + 1, best, max_similarity)
    ELSE LET similarity == Similarity(folder_name, projects[i].name)
         IN  IF FracGt(similarity, max_similarity)
             THEN BestFrom(folder_name, projects, i + 1, i, similarity)
             ELSE BestFrom(folder_name, projects, i + 1, best, max_similarity)

FindBestMatch(folder_name, projects) ==
    BestFrom(folder_name, projects, 1, 0, ZeroFrac)

\* os.path.basename(base_dir)
BaseName == <<"base">>

\* The row generate() appends for a folder, if any: a sequence of 0 or 1 rows.
ReportRow(folder_name, location, projects, rs) ==
    LET bm == FindBestMatch(folder_name, projects)
        p == projects[bm.index]
    IN  IF ~bm.found THEN <<>>
        ELSE <<[folder |-> folder_name, project |-> p.name, row |-> p.row,
                score |-> bm.similarity, size |-> p.size.val,
                target |-> ReportTargetDir(rs, p.size.val),
                location |-> location]>>

\* The inner loop of generate(): the subdirectories of a range directory.
RECURSIVE RowsInside(_, _, _, _, _)
RowsInside(subs, i, location, projects, rs) ==
    IF i > Len(subs) THEN <<>>
    ELSE ReportRow(subs[i], location, projects, rs)
         \o RowsInside(subs, i + 1, location, projects, rs)

\* The outer loop of generate() over the listing lst of base_dir; sub[d] is
\* the listing of the range directory d.
RECURSIVE ReportData(_, _, _, _, _)
ReportData(lst, i, sub, projects, rs) ==
    IF i > Len(lst) THEN <<>>
    ELSE (IF \E k \in 1..Len(rs) : rs[k].dir = lst[i]
          THEN RowsInside(sub[lst[i]], 1, lst[i], projects, rs)
          ELSE ReportRow(lst[i], BaseName, projects, rs))
         \o ReportData(lst, i + 1, sub, projects, rs)

\* The rows of a report_data, in no order: os.listdir's order is arbitrary.
RECURSIVE BagOfRows(_)
BagOfRows(rows) ==
    IF rows = <<>> THEN EmptyBag
    ELSE SetToBag({Head(rows)}) (+) BagOfRows(Tail(rows))

\* The subdirectories of base_dir/d.
SubDirs(ds, d) == {p[2] : p \in {q \in ds : Len(q) = 2 /\ q[1] = d}}

\* The listings os.listdir may give for the range directories among S.
SubListings(ds, S) ==
    {sub \in [S -> UNION {Orders(SubDirs(ds, d)) : d \in S}] :
        \A d \in S : sub[d] \in Orders(SubDirs(ds, d))}

\* The file generate() writes: a fixed prefix, the time of day, ".csv".
ReportFile == <<"report.csv">>

\* A faulty variant: writing the report replaces what base_dir held.
WriteReportOver(where, fs) ==
    IF where = "desktop" THEN fs ELSE {<<ReportFile>>}

\* df.to_csv(report_path): where is "desktop" (a Desktop directory exists,
\* outside base_dir) or "base" (none exists: os.path.dirname(excel_path),
\* which is base_dir).
WriteReport(where, fs) ==
    IF where = "desktop" THEN fs ELSE fs \cup {<<ReportFile>>}

\* FileClassifierApp.generate_report with ReportGenerator.generate.
GenerateReport ==
    /\ pc = "idle"
    /\ clicks < MaxClicks
    /\ clicks' = clicks + 1
    /\ handler' = "report"
    /\ LET v == ValidatedRanges(entries)
           pre == Preflight(pathState, v, sheet)
       IN  /\ validated' = IF pathState = "empty" THEN validated ELSE v
           /\ IF pre = "run"
              THEN \E where \in {"desktop", "base"} :
                   \E lst \in Orders(TopDirs(dirs)) :
                   \E sub \in SubListings(dirs,
                                  {d \in TopDirs(dirs) :
                                      \E k \in 1..Len(v.ranges) : v.ranges[k].dir = d}) :
                     /\ report' = BagOfRows(ReportData(lst, 1, sub,
                                                       ReadExcelData(sheet),
                                                       v.ranges))
                     /\ reportAt' = <<dirs, files>>
                     /\ reportPath' = where
                     /\ files' = WriteReport(where, files)
                     /\ msg' = "report_success"
                     /\ exc' = "none"
              ELSE /\ UNCHANGED <<report, reportAt, reportPath, files>>
                   /\ msg' = IF pre \in {"select_file", "uncaught", "input_error"}
                             THEN pre ELSE "report_error"
                   /\ exc' = IF pre \in {"select_file", "input_error"} THEN "none"
                             ELSE "ValueError"
    /\ UNCHANGED <<entries, pathState, sheet, dirs, pc, idx, ranges, last,
                   moved, saved, simA, simB, scoreC, scoreR>>

(***************************************************************************)
(* NameMatcher and RangeValidator on their own.                            *)
(***************************************************************************)
NotRun == [num |-> 0, den |-> 0]

\* The call of _find_project_folder: SequenceMatcher(None, project_name, folder).
ClassifyScore ==
    /\ scoreC = NotRun
    /\ scoreC' = Ratio(simA, simB)
    /\ UNCHANGED <<entries, pathState, sheet, dirs, files, pc, idx,
                   ranges, handler, msg, exc, last, moved, report,
                   reportAt, reportPath, clicks, validated, saved, simA, simB, scoreR>>

\* The call of _find_best_match: SequenceMatcher(None, folder_name, name).
ReportScore ==
    /\ scoreR = NotRun
    /\ scoreR' = Ratio(simB, simA)
    /\ UNCHANGED <<entries, pathState, sheet, dirs, files, pc, idx,
                   ranges, handler, msg, exc, last, moved, report,
                   reportAt, reportPath, clicks, validated, saved, simA, simB, scoreC>>

NotValidated == [ranges |-> <<>>, errors |-> <<>>, raised |-> FALSE, ran |-> FALSE]

\* RangeConfigFrame.get_validated_ranges
GetValidatedRanges ==
    /\ ~validated.ran
    /\ validated' = ValidatedRanges(entries) @@ [ran |-> TRUE]
    /\ UNCHANGED <<entries, pathState, sheet, dirs, files, pc, idx,
                   ranges, handler, msg, exc, last, moved, report,
                   reportAt, reportPath, clicks, saved, simA, simB, scoreC, scoreR>>

(***************************************************************************)
(* The inputs.                                                             *)
(***************************************************************************)
Alphabet == {"a", "b", "c"}
Strings == UNION {[1..n -> Alphabet] : n \in 0..MaxLen}

Row(n, c) == [name |-> TextCell(n), size |-> c]

RowSet ==
    {Row(nABC, NumCell(3)), Row(nABCD, NumCell(5)), Row(nABC, EmptyCell),
     Row(nABC, TextCell(<<"x">>)), Row(lblS, NumCell(5))}

\* Up to MaxRows rows.
SheetRows == UNION {[1..n -> RowSet] : n \in 0..MaxRows}

NoSheet == [readable |-> FALSE, ncols |-> 0, rows |-> <<>>]

Sheets ==
    {[readable |-> TRUE, ncols |-> 2, rows |-> r] : r \in SheetRows}
    \cup {[readable |-> TRUE, ncols |-> 1, rows |-> <<Row(nABC, EmptyCell)>>],
          NoSheet}

\* Filesystems: project folders with the bucket S absent, empty or holding
\* abc, and a regular file named B beside some of them.
DirSets ==
    {{}, {<<nAB>>}, {<<nABC>>}, {<<nABCD>>}, {<<nABC>>, <<nABCD>>},
     {<<nAB>>, <<nABC>>}, {<<nABC>>, <<lblS>>}, {<<lblS>>, <<lblS, nABC>>},
     {<<nABC>>, <<lblS>>, <<lblS, nABC>>}}

Filesystems ==
    {[dirs |-> d, files |-> {}] : d \in DirSets}
    \cup {[dirs |-> d, files |-> {<<lblB>>}] :
              d \in {{<<nABC>>}, {<<nABC>>, <<nABCD>>}, {<<nAB>>, <<lblS>>}}}

TypeInit ==
    /\ pc = "idle" /\ idx = 0 /\ ranges = <<>>
    /\ handler = "none" /\ msg = "none" /\ exc = "none"
    /\ last = NoRow /\ moved = <<>>
    /\ report = EmptyBag /\ reportAt = <<>> /\ reportPath = "none" /\ clicks = 0
    /\ validated = NotValidated /\ saved = <<>>

Init ==
    /\ TypeInit
    /\ entries \in EntryConfigs
    /\ pathState \in {"empty", "nofile", "nodir", "ok"}
    /\ sheet \in Sheets
    /\ \E f \in Filesystems : dirs = f.dirs /\ files = f.files
    \* a path that names no file has no sheet, a missing base_dir no entries
    /\ pathState # "ok" => sheet = NoSheet
    /\ pathState = "nodir" => dirs = {} /\ files = {}
    \* entries that do not validate: beside a sheet of two numbered rows
    /\ entries \in {InvalidEntries, SuperscriptEntries} =>
         \/ sheet = NoSheet
         \/ /\ sheet.ncols = 2
            /\ sheet.rows = <<Row(nABC, NumCell(3)), Row(nABCD, NumCell(5))>>
    /\ simA = <<>> /\ simB = <<>> /\ scoreC = NotRun /\ scoreR = NotRun

Next == ClassifyFiles \/ ClassifyRecord \/ ClassifyDone \/ GenerateReport

Spec == Init /\ [][Next]_vars

\* NameMatcher: every pair of strings over Alphabet up to MaxLen characters.
SimInit ==
    /\ TypeInit
    /\ entries = StandardEntries /\ pathState = "empty"
    /\ sheet = NoSheet
    /\ dirs = {} /\ files = {}
    /\ simA \in Strings /\ simB \in Strings
    /\ scoreC = NotRun /\ scoreR = NotRun

SimNext == ClassifyScore \/ ReportScore

SimSpec == SimInit /\ [][SimNext]_vars

\* RangeValidator: every list of up to MaxEntries triples over these texts.
MinTexts == {<<>>, <<"5">>, <<"1", "0">>, <<SuperscriptTwo>>}
MaxTexts == {<<"5">>, <<"1", "0">>, InfText, <<"x">>}
DirTexts == {<<>>, lblS}
Triples == {Entry(lo, hi, d) : lo \in MinTexts, hi \in MaxTexts, d \in DirTexts}

RangeInit ==
    /\ TypeInit
    /\ entries \in UNION {[1..n -> Triples] : n \in 0..MaxEntries}
    /\ pathState = "empty"
    /\ sheet = NoSheet
    /\ dirs = {} /\ files = {}
    /\ simA = <<>> /\ simB = <<>> /\ scoreC = NotRun /\ scoreR = NotRun

RangeNext == GetValidatedRanges

RangeSpec == RangeInit /\ [][RangeNext]_vars

(***************************************************************************)
(* Properties.  What follows states the behaviour independently of the     *)
(* operators above: thresholds and intervals are written out.              *)
(***************************************************************************)
\* run is about to process row idx.
AtRecord == pc = "running" /\ idx <= Len(sheet.rows)

CurName == StrOf(sheet.rows[idx].name)

\* The size of row i as a number, when the row has one.
HasNumber(i) ==
    /\ sheet.ncols >= 2
    /\ FloatOf(sheet.rows[i].size).ok
    /\ FloatOf(sheet.rows[i].size).val.k = "num"

NumberOf(i) == FloatOf(sheet.rows[i].size).val.v

\* n lies in the half-open interval of the range r.
Within(r, n) == r.min.v <= n /\ (r.max.k = "inf" \/ n < r.max.v)

\* The first range of rs, in list order, that n lies in (0: none).
FirstWithin(rs, n) ==
    IF \E i \in 1..Len(rs) : Within(rs[i], n)
    THEN CHOOSE i \in 1..Len(rs) :
             /\ Within(rs[i], n)
             /\ \A j \in 1..(i - 1) : ~Within(rs[j], n)
    ELSE 0

\* The directories directly under base_dir whose similarity to name is over 0.8.
Matching(name) ==
    {f \in TopDirs(dirs) : 10 * Similarity(name, f).num > 8 * Similarity(name, f).den}

\* The case of C1: the row has a number, a folder matches, a range holds it.
MoveCase ==
    /\ AtRecord
    /\ HasNumber(idx)
    /\ Matching(CurName) # {}
    /\ FirstWithin(ranges, NumberOf(idx)) # 0

\* C1 as claimed: whenever a row has a number, some folder matches its name
\* and its size lies in a range labelled L, then right after the row is
\* processed the matched folder is no longer directly under base_dir and is
\* at base_dir/L/<folder>, and base_dir/L exists.
C1_AlwaysMoved ==
    [][MoveCase =>
         \E i \in 1..Len(ranges) :
            /\ Within(ranges[i], NumberOf(idx))
            /\ <<last'.folder>> \notin dirs'
            /\ <<ranges[i].dir, last'.folder>> \in dirs'
            /\ <<ranges[i].dir>> \in dirs']_vars

\* p is neither at or below base_dir/F nor base_dir/L itself nor at or below
\* base_dir/L/F.
Apart(p, F, L) ==
    /\ p[1] # F
    /\ p # <<L>>
    /\ ~(Len(p) >= 2 /\ p[1] = L /\ p[2] = F)

\* C1 as amended: in that case, with F the matched folder and L the label of
\* the first range holding the size: if F is base_dir/L itself nothing
\* changes; otherwise, when makedirs or the move raises (L is a regular file,
\* base_dir/L/F exists already, or the operating system refuses the rename)
\* the run stops with F still directly under base_dir, and nothing apart from
\* F, base_dir/L and base_dir/L/F has changed; otherwise F is no longer
\* directly under base_dir and is at base_dir/L/F, base_dir/L having been
\* created if it was absent.
C1_MovedUnlessBlocked ==
    [][MoveCase =>
         LET F == last'.folder
             L == ranges[FirstWithin(ranges, NumberOf(idx))].dir
             blocked == <<L>> \in files \/ <<L, F>> \in dirs \cup files
         IN  /\ F \in Matching(CurName)
             /\ F = L => dirs' = dirs /\ files' = files /\ exc' = "none"
             /\ F # L /\ exc' # "none" =>
                  /\ blocked \/ exc' = "OSError"
                  /\ pc' = "idle"
                  /\ moved' = moved
                  /\ <<F>> \in dirs'
                  /\ <<L>> \in dirs => <<L>> \in dirs'
                  /\ <<L>> \in files <=> <<L>> \in files'
                  /\ {p \in dirs : Apart(p, F, L)} = {p \in dirs' : Apart(p, F, L)}
                  /\ {p \in files : Apart(p, F, L)} = {p \in files' : Apart(p, F, L)}
             /\ F # L /\ exc' = "none" =>
                  /\ ~blocked
                  /\ <<F>> \notin dirs'
                  /\ <<L, F>> \in dirs'
                  /\ <<L>> \in dirs'
                  /\ pc' = "running"]_vars

\* C1's case happened: a folder was moved into the bucket B, which no
\* initial filesystem holds, so the run created it.
C1_Witness ==
    /\ last.outcome = "moved"
    /\ last.target = lblB
    /\ <<lblB, last.folder>> \in dirs
    /\ <<last.folder>> \notin dirs

\* C2: when no directory directly under base_dir has similarity over 0.8 to
\* the row's name, processing the row leaves the filesystem as it was.
C2_NoMatchNoEffect ==
    [][AtRecord /\ Matching(CurName) = {} => dirs' = dirs /\ files' = files]_vars

\* C2's case happened: the row abc was processed beside the folder ab, whose
\* similarity is exactly 0.8, and nothing matched.
C2_Witness ==
    /\ last.outcome = "no_folder"
    /\ sheet.rows[last.row].name = TextCell(nABC)
    /\ <<nAB>> \in dirs

\* The bucket the range list rs gives the size val: the label of the first
\* range holding it, or none.
BucketOf(rs, val, none) ==
    IF val.k = "num" /\ FirstWithin(rs, val.v) # 0
    THEN rs[FirstWithin(rs, val.v)].dir
    ELSE none

\* C3: both _get_target_dir return the label of the first range in list
\* order with min <= size < max: in classify mode the target of every row
\* that got one, and none for a row that got none; in report mode the
\* target category of every row of the report.
C3_FirstHalfOpenRange ==
    /\ last.outcome \in {"moved", "same", "exists", "oserror", "mkdir_failed"} =>
         last.target = BucketOf(ranges, FloatOf(sheet.rows[last.row].size).val, <<>>)
    /\ last.outcome = "no_target" =>
         BucketOf(ranges, FloatOf(sheet.rows[last.row].size).val, <<>>) = <<>>
    /\ \A r \in BagToSet(report) :
         r.target = BucketOf(validated.ranges, r.size, Unclassified)

\* C3's case happened: under the overlapping ranges [4, 7) S and [5, 9) B a
\* row of size 5 went to S, the earlier range.
C3_Witness ==
    /\ entries = OverlapEntries
    /\ last.outcome = "moved"
    /\ sheet.rows[last.row].size = NumCell(5)
    /\ last.target = lblS

\* The triple e is valid: min and max are decimal numerals (max may be
\* "inf"), the label is not empty, and min < max.
ValidTriple(e) ==
    /\ IsDecimal(e.min)
    /\ e.max = InfText \/ IsDecimal(e.max)
    /\ e.dir # <<>>
    /\ e.max = InfText \/ DecValue(e.min) < DecValue(e.max)

\* C4 as claimed: get_ranges returns, for any list of triples, one error per
\* invalid triple and one range per valid triple (so as many ranges and
\* errors as triples), every range with min < max and a non-empty label, and
\* the ranges in the order of the triples they come from.
C4_OneResultPerTriple ==
    validated.ran =>
        LET valid == SelectSeq(entries, ValidTriple)
        IN  /\ ~validated.raised
            /\ Len(validated.ranges) + Len(validated.errors) = Len(entries)
            /\ Len(validated.ranges) = Len(valid)
            /\ \A i \in 1..Len(validated.ranges) :
                 /\ validated.ranges[i].dir = valid[i].dir
                 /\ validated.ranges[i].dir # <<>>
                 /\ validated.ranges[i].min.v = DecValue(valid[i].min)
                 /\ \/ validated.ranges[i].max.k = "inf"
                    \/ validated.ranges[i].min.v < validated.ranges[i].max.v

\* The pre-flight errors of C5: get_ranges returns errors, the spreadsheet
\* path names no file, or base_dir is no directory.
PreflightError ==
    \/ ~ValidatedRanges(entries).raised /\ ValidatedRanges(entries).errors # <<>>
    \/ pathState \in {"nofile", "nodir"}

\* C5: with a pre-flight error, classify_files never enters run's loop, and
\* the step it takes leaves the filesystem as it was.
C5_PreflightErrorNoEffect ==
    /\ [](PreflightError => pc = "idle")
    /\ [][PreflightError /\ handler' = "classify" =>
            dirs' = dirs /\ files' = files]_vars

\* C5's case happened: classify_files showed the range errors although the
\* first row's name matches a folder of base_dir.
C5_Witness ==
    /\ handler = "classify"
    /\ msg = "input_error"
    /\ Len(sheet.rows) > 0
    /\ Matching(StrOf(sheet.rows[1].name)) # {}

ReportStep == clicks' = clicks + 1 /\ handler' = "report"

\* C7 as claimed: generate() creates, moves and removes nothing under
\* base_dir.
C7_NothingChanges ==
    [][ReportStep => dirs' = dirs /\ files' = files]_vars

\* C7 as amended: generate() creates, moves and removes no directory and
\* removes no file under base_dir; the one entry it may add is the report
\* file, and it adds it to base_dir exactly when it writes there, no Desktop
\* directory existing.
C7_OnlyTheReportFile ==
    [][ReportStep =>
         /\ dirs' = dirs
         /\ files \subseteq files'
         /\ files' \subseteq files \cup {<<ReportFile>>}
         /\ <<ReportFile>> \in files' \ files => reportPath' = "base"
         /\ reportPath' = "base" /\ msg' = "report_success" =>
              <<ReportFile>> \in files']_vars

\* C7's case happened: no Desktop directory existed and the report was
\* written beside the spreadsheet, in a base_dir holding a file and folders.
C7_Witness ==
    /\ handler = "report"
    /\ msg = "report_success"
    /\ reportPath = "base"
    /\ <<ReportFile>> \in files
    /\ <<lblB>> \in files
    /\ dirs # {}

\* C8 as claimed: a row whose size is no number (unparseable text, an empty
\* cell, a missing second column) never has a folder moved for it, is never
\* the matched project of a report row, and never makes a run show an error.
C8_NonNumericRowsIgnored ==
    /\ \A i \in 1..Len(moved) : HasNumber(moved[i].row)
    /\ \A r \in BagToSet(report) : HasNumber(r.row)
    /\ exc # "KeyError"

Computed == scoreC # NotRun /\ scoreR # NotRun

\* C9 as claimed: the score is symmetric and within [0, 1]: the classify
\* call and the report call give the same score for the same pair.
C9_Symmetric ==
    Computed =>
        /\ FracEq(scoreC, scoreR)
        /\ 0 <= scoreC.num /\ scoreC.num <= scoreC.den

\* C9 as amended: both calls give a score within [0, 1]; it is 1 in either
\* order exactly when the strings are equal, and 0 in one order exactly when
\* it is 0 in the other.  Between, the two orders may differ.
C9_BoundedNotSymmetric ==
    Computed =>
        /\ 0 <= scoreC.num /\ scoreC.num <= scoreC.den
        /\ 0 <= scoreR.num /\ scoreR.num <= scoreR.den
        /\ scoreC.num = scoreC.den <=> simA = simB
        /\ scoreR.num = scoreR.den <=> simA = simB
        /\ scoreC.num = 0 <=> scoreR.num = 0

\* C9's case happened: both calls were made for one pair and gave two scores.
C9_Witness ==
    /\ Computed
    /\ ~FracEq(scoreC, scoreR)
    /\ scoreC.num > 0

\* C10 as claimed: when a report was generated right before a classify run,
\* every folder the run moves into a bucket L has a row in that report, as a
\* folder of base_dir, whose target category is L.
C10_ReportPreviewsClassify ==
    clicks = 2 /\ handler = "classify" /\ reportAt # <<>> =>
        \A i \in 1..Len(moved) :
            \E r \in BagToSet(report) :
                /\ r.folder = moved[i].folder
                /\ r.location = BaseName
                /\ r.target = moved[i].target

\* The size cell of row i went through float(), whatever it gave.
SizeParsed(i) == sheet.ncols >= 2 /\ FloatOf(sheet.rows[i].size).ok

\* C11: for each row whose size parsed, _find_project_folder goes through a
\* listing of the directories that are directly under base_dir at that
\* moment and returns the first one whose similarity to the row's name is
\* strictly over 0.8: every entry it went past scores 0.8 or less, the one it
\* returns scores more, it returns none only when it went past all of them,
\* and whatever scores more later in the listing is left alone.  A folder
\* that was moved is no longer directly under base_dir, so no later listing
\* holds it.
C11_FirstOverThreshold ==
    [][AtRecord /\ SizeParsed(idx) =>
         LET F == last'.folder
             P == last'.passed
         IN  /\ P \subseteq TopDirs(dirs)
             /\ P \cap Matching(CurName) = {}
             /\ IF Matching(CurName) = {}
                THEN F = <<>> /\ P = TopDirs(dirs)
                ELSE F \in Matching(CurName) /\ F \notin P
             /\ (last'.outcome = "moved") => F \notin TopDirs(dirs')]_vars

\* C11's case happened: the row named abc took the folder abcd, which came
\* first in the listing, and the folder abc, which scores higher, stayed.
C11_Witness ==
    /\ last.row > 0
    /\ last.outcome = "moved"
    /\ StrOf(sheet.rows[last.row].name) = nABC
    /\ last.folder = nABCD
    /\ <<nABC>> \in dirs
    /\ <<nABCD>> \notin dirs

\* No range of rs holds the size val (a number outside all of them, or nan).
InNoRange(rs, val) == BucketOf(rs, val, <<>>) = <<>>

\* C12: in run, a row whose name matches a folder and whose size lies in no
\* configured range changes nothing: the folder the row matched stays
\* directly under base_dir, no directory or file is created, moved or
\* removed, nothing is raised and the loop goes on to the next row.  In the
\* report, every row whose size lies in no range has the unclassified
\* label as its target category.
C12_NoRangeNoChange ==
    [][/\ (AtRecord /\ SizeParsed(idx) /\ Matching(CurName) # {}
           /\ InNoRange(ranges, FloatOf(sheet.rows[idx].size).val))
          => /\ dirs' = dirs
             /\ files' = files
             /\ moved' = moved
             /\ last'.folder \in TopDirs(dirs')
             /\ last'.target = <<>>
             /\ exc' = "none"
             /\ idx' = idx + 1
       /\ \A r \in BagToSet(report') :
            InNoRange(validated'.ranges, r.size) => r.target = Unclassified]_vars

\* C12's case happened: under the ranges [4, 7) S and [5, 9) B the row
\* (abc, 3) matched the folder abc, which stayed where it was, and the
\* report made before has a row of size 3 with the unclassified label.
C12_Witness ==
    /\ last.row > 0
    /\ last.outcome = "no_target"
    /\ sheet.rows[last.row].size = NumCell(3)
    /\ <<last.folder>> \in dirs
    /\ \E r \in BagToSet(report) : r.size = Num(3) /\ r.target = Unclassified

\* The rows of the sheet that have a size in report mode: float() gave one.
Pool == {i \in 1..Len(sheet.rows) : SizeParsed(i)}

\* The similarity _find_best_match computes for folder F and row i.
ScoreOf(F, i) == Similarity(F, StrOf(sheet.rows[i].name))

\* The first row of the pool, in sheet order, whose similarity to F is the
\* highest of the pool.
FirstBest(F) ==
    CHOOSE i \in Pool :
        \A j \in Pool :
            /\ ~FracGt(ScoreOf(F, j), ScoreOf(F, i))
            /\ j < i => FracGt(ScoreOf(F, i), ScoreOf(F, j))

\* The labels of the ranges the last report was made with.
ReportLabels == {validated.ranges[k].dir : k \in 1..Len(validated.ranges)}

\* The folders the last report had to cover, as <<name, location>>: every
\* directory of base_dir that is no range directory, and every directory one
\* level inside a range directory.
ToReport ==
    LET ds == reportAt[1]
    IN  {<<F, BaseName>> : F \in TopDirs(ds) \ ReportLabels}
        \cup {<<p[2], p[1]>> :
                  p \in {q \in ds : Len(q) = 2 /\ q[1] \in ReportLabels}}

\* A report was made from a sheet with at least one row that has a size.
Reported == reportAt # <<>> /\ Pool # {}

\* C13 as claimed: for every folder of the report, _find_best_match returns
\* a row of the pool whose similarity to the folder's name is the highest of
\* the pool, and of several such rows the first in sheet order: the report
\* shows that row and that score for the folder.
C13_GlobalBestFirstTie ==
    Reported =>
        \A t \in ToReport :
            \E r \in BagToSet(report) :
                /\ r.folder = t[1]
                /\ r.location = t[2]
                /\ r.row = FirstBest(t[1])
                /\ FracEq(r.score, ScoreOf(t[1], FirstBest(t[1])))

\* C14 as claimed: the report of a sheet with at least one row that has a
\* size holds exactly one row for every folder it had to cover, and no
\* other row, whatever the folder's best similarity is, 0 included.
C14_OneRowPerFolder ==
    Reported =>
        /\ \A t \in ToReport :
             \E r \in BagToSet(report) :
                 /\ r.folder = t[1] /\ r.location = t[2]
                 /\ CopiesIn(r, report) = 1
                 /\ \A q \in BagToSet(report) :
                      (q.folder = t[1] /\ q.location = t[2]) => q = r
        /\ \A r \in BagToSet(report) : <<r.folder, r.location>> \in ToReport

\* The labels of the ranges the run works with.
RunLabels == {ranges[k].dir : k \in 1..Len(ranges)}

\* C15 as claimed: the folder a row of run selects for a move is never a
\* directory of base_dir named by a range label, whether it was there before
\* the run or made by it: no such directory leaves base_dir, and no folder
\* is moved into itself.
C15_BucketsNeverMoved ==
    [][AtRecord =>
         /\ (last'.outcome \in {"moved", "same", "exists", "oserror",
                                "mkdir_failed"})
            => /\ last'.folder \notin RunLabels
               /\ last'.folder # last'.target
         /\ \A L \in RunLabels : <<L>> \in dirs => <<L>> \in dirs']_vars

====
